---- MODULE Spec2Model ----
(***************************************************************************)
(* The medicine inventory store (useMedicineStore) of the pharmacy admin   *)
(* dashboard: a zustand store that merges the documents of the document    *)
(* store with the records of the ledger, and its four asynchronous         *)
(* operations fetchMedicines, addMedicine, updateMedicine, approveMedicine.*)
(*                                                                         *)
(* Every operation is an async function: it runs atomically from one await *)
(* to the next, and other invocations may run in between.  An invocation   *)
(* occupies a slot of call; each action below is one such atomic segment.  *)
(***************************************************************************)
EXTENDS Integers, Sequences, FiniteSets, TLC

VARIABLES
    medicines,      \* state.medicines: the in-memory list
    isInitialized,  \* state.isInitialized
    error,          \* state.error ("undefined" when unset)
    loading,        \* state.loading
    db,             \* the document store's collection, in list() order
    ledger,         \* the ledger contract's record per batch number
    call,           \* the invocations in flight, per slot
    last,           \* the invocation the latest step completed, as it ended
                    \* (IdleCall when the latest step completed none)
    started,        \* number of invocations started so far
    stable,         \* <<>> or <<r>>: the first list a fetch published since
                    \* the database or the ledger was last written, by a
                    \* fetch that started after that write
    orphans,        \* the batches an add wrote to the ledger and then
                    \* failed to create in the database, which held no
                    \* record of the batch
    clsQ,           \* the quantity the classifiers were last applied to
    clsStore,       \* getStockStatus(clsQ), "none" before the first
    clsUI           \* getUIStockStatus(clsQ)

vars == <<medicines, isInitialized, error, loading, db, ledger, call, last,
          started, stable, orphans, clsQ, clsStore, clsUI>>

(***************************************************************************)
(* Bounds of the model.                                                    *)
(***************************************************************************)
MaxCalls == 2   \* invocations in flight at the same time
MaxOps == 3     \* invocations started in one behaviour (the auto-load included)
MaxDb == 2      \* documents in the document store
QLow == 30      \* the classifiers are applied to -QLow..QHigh
QHigh == 80

Procs == 1..MaxCalls
Batches == {"B1", "B2"}

(***************************************************************************)
(* JavaScript values of a numeric field that may be absent: a number,      *)
(* undefined, or NaN.                                                      *)
(***************************************************************************)
Undefined == [t |-> "undefined", n |-> 0]
NaN == [t |-> "NaN", n |-> 0]
Num(i) == [t |-> "number", n |-> i]

\* Number(v): Number(undefined) is NaN, a number is itself.
Number(v) == IF v.t = "undefined" THEN NaN ELSE v

\* a <= b of JavaScript: false as soon as one side is NaN.
JsLe(a, b) == a.t = "number" /\ b.t = "number" /\ a.n <= b.n

(***************************************************************************)
(* The two classifiers.                                                    *)
(***************************************************************************)
getStockStatus_offByOne(quantity) ==
    IF JsLe(quantity, Num(0)) THEN "Out of Stock"
    ELSE IF JsLe(quantity, Num(49)) THEN "Low Stock"
    ELSE "In Stock"

getStockStatus(quantity) ==
    IF JsLe(quantity, Num(0)) THEN "Out of Stock"
    ELSE IF JsLe(quantity, Num(50)) THEN "Low Stock"
    ELSE "In Stock"

getUIStockStatus(qty) ==
    IF JsLe(qty, Num(0)) THEN "Out of Stock"
    ELSE IF JsLe(qty, Num(50)) THEN "Low Stock"
    ELSE "In Stock"

(***************************************************************************)
(* Medicine records.  Every record carries every field; a field a document *)
(* does not hold is "undefined" (Undefined for the numeric stock, the      *)
(* empty sequence for history, which the store reads as m.history || []).  *)
(* The fields no operation of the store reads or writes (name, the dates,  *)
(* supplyChainStatus) are left out.                                        *)
(***************************************************************************)
NoEntry == [isNull |-> FALSE, exists |-> FALSE, stock |-> 0, price |-> 0,
            manufacturer |-> ""]

\* What getMedicineOnChain returns when the contract call throws.
NullChain == [isNull |-> TRUE, exists |-> FALSE, stock |-> 0, price |-> 0,
              manufacturer |-> ""]

\* A document an earlier session wrote, without or with a stock field.
DocNoStock ==
    [id |-> 1, batchNo |-> "B1", manufacturer |-> "Beta", price |-> 20,
     quantity |-> 30, stock |-> Undefined, stockStatus |-> "undefined",
     ledgerStatus |-> "undefined", listingStatus |-> "undefined",
     onChain |-> FALSE, txHash |-> "undefined", history |-> <<>>]

DocWithStock ==
    [DocNoStock EXCEPT !.stock = Num(30), !.stockStatus = "In Stock",
                       !.listingStatus = "Pending"]


\* The ledger's record of B1 when an earlier session has confirmed it.
LedgerB1 == [isNull |-> FALSE, exists |-> TRUE, stock |-> 5, price |-> 10,
             manufacturer |-> "Acme"]

NoLedger == [b \in Batches |-> NoEntry]

\* The database and the ledger when the page is loaded.
InitWorlds ==
    {[db |-> <<>>, ledger |-> NoLedger],
     [db |-> <<DocNoStock>>, ledger |-> NoLedger],
     [db |-> <<DocWithStock>>, ledger |-> NoLedger],
     [db |-> <<DocNoStock>>, ledger |-> [NoLedger EXCEPT !["B1"] = LedgerB1]]}

\* The payloads the add dialog submits.
AddPayloads ==
    {[batchNo |-> "B2", manufacturer |-> "Acme", price |-> 10, quantity |-> 60]}

\* The payloads the edit dialog submits.
UpdatePayloads == {[quantity |-> 0], [price |-> 99]}

FetchErrorMessage == "Failed to fetch medicines"

ApprovedEntry == [action |-> "APPROVED", timestamp |-> "now",
                  changes |-> "Approved by Admin"]

(***************************************************************************)
(* An invocation: op and pc (the await it is suspended at), its arguments   *)
(* and locals, and what it returned.  A slot whose invocation has          *)
(* completed is free again (IdleCall).                                     *)
(***************************************************************************)
NewCall(o, start, a) ==
    [op |-> o, pc |-> start, arg |-> a,
     meds |-> <<>>,       \* fetch: const meds
     merged |-> <<>>,     \* fetch: const merged
     reads |-> <<>>,      \* fetch: the chainData of each iteration;
                          \* add: const chainData
     clean |-> TRUE,      \* fetch: nothing was written since it started
     after |-> stable # <<>>,  \* fetch: it started after stable was published
     txHash |-> "undefined",        \* add: const txHash
     ledgerStatus |-> "undefined",  \* add: let ledgerStatus
     newMed |-> <<>>,     \* add: the record create resolves with
     log |-> <<>>,        \* the external calls issued, in order
     failed |-> FALSE,    \* the catch branch ran
     toast |-> "none",    \* approve: the title handleApproveClick shows
     ret |-> <<>>]        \* the value returned: <<>> is null, <<r>> a record

IdleCall == [NewCall("none", "idle", [none |-> TRUE]) EXCEPT !.after = FALSE]

\* handleApproveClick: the toast shown for what approveMedicine resolved
\* with (<<>> is null).
ApproveToast(approved) ==
    IF approved # <<>> THEN "Medicine Approved" ELSE "Approval Failed"

\* Invocation p completes as c; the caller of an approve shows its toast.
Finish(p, c, others) ==
    /\ call' = [others EXCEPT ![p] = IdleCall]
    /\ last' = [c EXCEPT !.pc = "idle",
                         !.toast = IF c.op = "approve"
                                   THEN ApproveToast(c.ret) ELSE "none"]

\* A new invocation takes the first free slot.
CanStart(p) ==
    /\ call[p].pc = "idle"
    /\ started < MaxOps
    /\ \A q \in Procs : q < p => call[q].pc # "idle"

InFlight(o) == {p \in Procs : call[p].op = o /\ call[p].pc # "idle"}

\* A write to the database or the ledger ends the quiet period a fetch has
\* been running in.
Disturbed(c) ==
    [p \in Procs |-> IF c[p].op = "fetch" /\ c[p].pc # "idle"
                     THEN [c[p] EXCEPT !.clean = FALSE] ELSE c[p]]

(***************************************************************************)
(* fetchMedicines                                                          *)
(***************************************************************************)
\* The body of the for loop: one record merged with its ledger read.
MergeMed_keepsDbPrice(med, chainData) ==
    LET m1 == IF ~chainData.isNull /\ chainData.exists
              THEN [med EXCEPT !.ledgerStatus = "On-Chain",
                               !.stock = Num(chainData.stock),
                               !.manufacturer = chainData.manufacturer]
              ELSE [med EXCEPT !.ledgerStatus = "Pending Confirmation"]
    IN  [m1 EXCEPT !.stockStatus = getStockStatus(Number(m1.stock))]

MergeMed_keepsDbStock(med, chainData) ==
    LET m1 == IF ~chainData.isNull /\ chainData.exists
              THEN [med EXCEPT !.ledgerStatus = "On-Chain",
                               !.price = chainData.price,
                               !.manufacturer = chainData.manufacturer]
              ELSE [med EXCEPT !.ledgerStatus = "Pending Confirmation"]
    IN  [m1 EXCEPT !.stockStatus = getStockStatus(Number(m1.stock))]

MergeMed(med, chainData) ==
    LET m1 == IF ~chainData.isNull /\ chainData.exists
              THEN [med EXCEPT !.ledgerStatus = "On-Chain",
                               !.stock = Num(chainData.stock),
                               !.price = chainData.price,
                               !.manufacturer = chainData.manufacturer]
              ELSE [med EXCEPT !.ledgerStatus = "Pending Confirmation"]
    IN  [m1 EXCEPT !.stockStatus = getStockStatus(Number(m1.stock))]

\* getMedicineOnChain(batch): the contract's record, or null when the call
\* throws.
ReadResults(batch) == {NullChain, ledger[batch]}

\* set({ medicines: merged, isInitialized: true, loading: false })
PublishList_appends(list, merged) == list \o merged

PublishList_firstWins(list, merged) == IF list # <<>> THEN list ELSE merged

PublishList(list, merged) == merged

FetchPublish_clearsError(p, c) ==
    /\ medicines' = PublishList(medicines, c.merged)
    /\ isInitialized' = TRUE
    /\ loading' = FALSE
    /\ error' = "undefined"
    /\ Finish(p, c, call)
    /\ stable' = IF c.clean /\ stable = <<>>
                 THEN <<[list |-> medicines', reads |-> c.reads]>>
                 ELSE stable

FetchPublish(p, c) ==
    /\ medicines' = PublishList(medicines, c.merged)
    /\ isInitialized' = TRUE
    /\ loading' = FALSE
    /\ error' = error
    /\ Finish(p, c, call)
    /\ stable' = IF c.clean /\ stable = <<>>
                 THEN <<[list |-> medicines', reads |-> c.reads]>>
                 ELSE stable

FetchStart(p) ==
    /\ CanStart(p)
    /\ loading' = TRUE
    /\ call' = [call EXCEPT ![p] =
                   [NewCall("fetch", "list", [none |-> TRUE])
                       EXCEPT !.log = <<"list">>]]
    /\ started' = started + 1
    /\ last' = IdleCall
    /\ UNCHANGED <<medicines, isInitialized, error, db, ledger, stable,
                   orphans, clsQ, clsStore, clsUI>>

\* getMedicinesFromFirestore resolves; an empty collection is published at
\* once, otherwise the first ledger read is issued.
FetchList_readsInParallel(p) ==
    /\ call[p].op = "fetch" /\ call[p].pc = "list"
    /\ LET c == [call[p] EXCEPT !.meds = db] IN
       IF Len(db) = 0
       THEN FetchPublish(p, c)
       ELSE /\ call' = [call EXCEPT ![p] =
                           [c EXCEPT !.pc = "read",
                                     !.log = @ \o [i \in 1..Len(db) |->
                                                     "read"]]]
            /\ last' = IdleCall
            /\ UNCHANGED <<medicines, isInitialized, error, loading, stable>>
    /\ UNCHANGED <<db, ledger, started, orphans, clsQ, clsStore, clsUI>>

FetchList(p) ==
    /\ call[p].op = "fetch" /\ call[p].pc = "list"
    /\ LET c == [call[p] EXCEPT !.meds = db] IN
       IF Len(db) = 0
       THEN FetchPublish(p, c)
       ELSE /\ call' = [call EXCEPT ![p] =
                           [c EXCEPT !.pc = "read",
                                     !.log = Append(@, "read")]]
            /\ last' = IdleCall
            /\ UNCHANGED <<medicines, isInitialized, error, loading, stable>>
    /\ UNCHANGED <<db, ledger, started, orphans, clsQ, clsStore, clsUI>>

\* getMedicinesFromFirestore rejects: the catch branch.
FetchListFail_clearsList(p) ==
    /\ call[p].op = "fetch" /\ call[p].pc = "list"
    /\ medicines' = <<>>
    /\ loading' = FALSE
    /\ error' = FetchErrorMessage
    /\ Finish(p, [call[p] EXCEPT !.failed = TRUE], call)
    /\ UNCHANGED <<isInitialized, db, ledger, started, stable,
                   orphans, clsQ, clsStore, clsUI>>

FetchListFail_initializes(p) ==
    /\ call[p].op = "fetch" /\ call[p].pc = "list"
    /\ loading' = FALSE
    /\ error' = FetchErrorMessage
    /\ isInitialized' = TRUE
    /\ Finish(p, [call[p] EXCEPT !.failed = TRUE], call)
    /\ UNCHANGED <<medicines, db, ledger, started, stable,
                   orphans, clsQ, clsStore, clsUI>>

FetchListFail(p) ==
    /\ call[p].op = "fetch" /\ call[p].pc = "list"
    /\ loading' = FALSE
    /\ error' = FetchErrorMessage
    /\ Finish(p, [call[p] EXCEPT !.failed = TRUE], call)
    /\ UNCHANGED <<medicines, isInitialized, db, ledger, started, stable,
                   orphans, clsQ, clsStore, clsUI>>

\* The body of the loop for the record whose ledger read resolved with
\* chainData; after the last record the merged list is published.
FetchMerge(p, chainData) ==
    LET i == Len(call[p].merged) + 1
        med == call[p].meds[i]
        c == [call[p] EXCEPT
                 !.merged = Append(@, MergeMed(med, chainData)),
                 !.reads = Append(@, chainData)]
    IN  IF i = Len(call[p].meds)
        THEN FetchPublish(p, c)
        ELSE /\ call' = [call EXCEPT ![p] =
                            [c EXCEPT !.log = Append(@, "read")]]
             /\ last' = IdleCall
             /\ UNCHANGED <<medicines, isInitialized, error, loading, stable>>

\* getMedicineOnChain(med.batchNo) resolves for the next record.
FetchRead_readFailureFails(p) ==
    /\ call[p].op = "fetch" /\ call[p].pc = "read"
    /\ \E chainData \in
           ReadResults(call[p].meds[Len(call[p].merged) + 1].batchNo) :
         IF chainData.isNull
         THEN /\ loading' = FALSE
              /\ error' = FetchErrorMessage
              /\ Finish(p, [call[p] EXCEPT !.failed = TRUE], call)
              /\ UNCHANGED <<medicines, isInitialized, stable>>
         ELSE FetchMerge(p, chainData)
    /\ UNCHANGED <<db, ledger, started, orphans, clsQ, clsStore, clsUI>>

FetchRead(p) ==
    /\ call[p].op = "fetch" /\ call[p].pc = "read"
    /\ \E chainData \in
           ReadResults(call[p].meds[Len(call[p].merged) + 1].batchNo) :
         FetchMerge(p, chainData)
    /\ UNCHANGED <<db, ledger, started, orphans, clsQ, clsStore, clsUI>>

(***************************************************************************)
(* The document store (firebase/medicines) and the ledger write.           *)
(***************************************************************************)
\* addMedicineToFirestore(fields): the stored document, with the identifier
\* the document store assigns.
DbCreate(fields, d) == [fields EXCEPT !.id = Len(d) + 1]

DbHas(d, id) == \E i \in 1..Len(d) : d[i].id = id

\* updateMedicineInFirestore(id, fields): the document's fields overwritten.
DbUpdate(d, id, fields) ==
    [i \in 1..Len(d) |-> IF d[i].id = id THEN fields @@ d[i] ELSE d[i]]

\* The transaction hash of a mined addMedicine transaction.
TxHashOf(batch) == IF batch = "B1" THEN "0xb1" ELSE "0xb2"

\* The record contract.addMedicine stores.
LedgerRecord(payload) ==
    [isNull |-> FALSE, exists |-> TRUE, stock |-> payload.quantity,
     price |-> payload.price, manufacturer |-> payload.manufacturer]

(***************************************************************************)
(* addMedicine                                                             *)
(***************************************************************************)
\* { ...payload, txHash, ledgerStatus, onChain: ledgerStatus === "On-Chain" }
NewDocFields_onChainAlways(payload, txHash, ledgerStatus) ==
    [id |-> 0, batchNo |-> payload.batchNo,
     manufacturer |-> payload.manufacturer, price |-> payload.price,
     quantity |-> payload.quantity, stock |-> Undefined,
     stockStatus |-> "undefined", ledgerStatus |-> ledgerStatus,
     listingStatus |-> "undefined", onChain |-> TRUE,
     txHash |-> txHash, history |-> <<>>]

NewDocFields(payload, txHash, ledgerStatus) ==
    [id |-> 0, batchNo |-> payload.batchNo,
     manufacturer |-> payload.manufacturer, price |-> payload.price,
     quantity |-> payload.quantity, stock |-> Undefined,
     stockStatus |-> "undefined", ledgerStatus |-> ledgerStatus,
     listingStatus |-> "undefined", onChain |-> (ledgerStatus = "On-Chain"),
     txHash |-> txHash, history |-> <<>>]

\* medicines: [newMed, ...state.medicines]
PrependMed_appends(newMed, list) == Append(list, newMed)

PrependMed(newMed, list) == <<newMed>> \o list

AddStart(p) ==
    /\ CanStart(p)
    /\ Len(db) + Cardinality(InFlight("add")) < MaxDb
    /\ \E payload \in AddPayloads :
         call' = [call EXCEPT ![p] =
                     [NewCall("add", "write", payload)
                         EXCEPT !.log = <<"write">>]]
    /\ loading' = TRUE
    /\ started' = started + 1
    /\ last' = IdleCall
    /\ UNCHANGED <<medicines, isInitialized, error, db, ledger, stable,
                   orphans, clsQ, clsStore, clsUI>>

\* addMedicineOnChain resolves with the transaction hash; the ledger is read.
AddWriteOk(p) ==
    /\ call[p].op = "add" /\ call[p].pc = "write"
    /\ ledger' = [ledger EXCEPT ![call[p].arg.batchNo] =
                     LedgerRecord(call[p].arg)]
    /\ call' = [Disturbed(call) EXCEPT
                   ![p].txHash = TxHashOf(call[p].arg.batchNo),
                   ![p].pc = "confirm",
                   ![p].log = Append(@, "read")]
    /\ stable' = <<>>
    /\ last' = IdleCall
    /\ UNCHANGED <<medicines, isInitialized, error, loading, db, started,
                   orphans, clsQ, clsStore, clsUI>>

\* The catch and finally branches of addMedicine.
AddAbort_keepsLoading(p) ==
    /\ Finish(p, [call[p] EXCEPT !.failed = TRUE, !.ret = <<>>], call)
    /\ UNCHANGED <<medicines, isInitialized, error, loading, db, ledger,
                   started, stable, clsQ, clsStore, clsUI>>

AddAbort_undoesLedgerWrite(p) ==
    /\ Finish(p, [call[p] EXCEPT !.failed = TRUE, !.ret = <<>>], call)
    /\ loading' = FALSE
    /\ ledger' = [ledger EXCEPT ![call[p].arg.batchNo] = NoEntry]
    /\ UNCHANGED <<medicines, isInitialized, error, db, started,
                   stable, clsQ, clsStore, clsUI>>

AddAbort(p) ==
    /\ Finish(p, [call[p] EXCEPT !.failed = TRUE, !.ret = <<>>], call)
    /\ loading' = FALSE
    /\ UNCHANGED <<medicines, isInitialized, error, db, ledger, started,
                   stable, clsQ, clsStore, clsUI>>

\* addMedicineOnChain throws (no wallet, no signer, the transaction fails).
AddWriteFail(p) ==
    /\ call[p].op = "add" /\ call[p].pc = "write"
    /\ AddAbort(p)
    /\ UNCHANGED orphans

\* getMedicineOnChain resolves; the document store create is issued.
AddConfirm(p) ==
    /\ call[p].op = "add" /\ call[p].pc = "confirm"
    /\ \E chainData \in ReadResults(call[p].arg.batchNo) :
         call' = [call EXCEPT
                     ![p].ledgerStatus =
                         IF ~chainData.isNull /\ chainData.exists
                         THEN "On-Chain" ELSE "Pending Confirmation",
                     ![p].reads = <<chainData>>,
                     ![p].pc = "create",
                     ![p].log = Append(@, "create")]
    /\ last' = IdleCall
    /\ UNCHANGED <<medicines, isInitialized, error, loading, db, ledger,
                   started, stable, orphans, clsQ, clsStore, clsUI>>

\* The document store writes the new document; its answer is on the way.
AddCreate(p) ==
    /\ call[p].op = "add" /\ call[p].pc = "create"
    /\ LET doc == DbCreate(NewDocFields(call[p].arg, call[p].txHash,
                                        call[p].ledgerStatus), db)
       IN  /\ db' = Append(db, doc)
           /\ call' = [Disturbed(call) EXCEPT ![p].newMed = <<doc>>,
                                              ![p].pc = "created"]
    /\ stable' = <<>>
    /\ last' = IdleCall
    /\ UNCHANGED <<medicines, isInitialized, error, loading, ledger, started,
                   orphans, clsQ, clsStore, clsUI>>

HasBatch(list, batch) == \E i \in 1..Len(list) : list[i].batchNo = batch

\* addMedicineToFirestore rejects: the ledger keeps what the add wrote.
AddCreateFail(p) ==
    /\ call[p].op = "add" /\ call[p].pc = "create"
    /\ AddAbort(p)
    /\ orphans' = IF HasBatch(db, call[p].arg.batchNo) THEN orphans
                  ELSE orphans \cup {call[p].arg.batchNo}

\* addMedicineToFirestore resolves: the list is updated, the record
\* returned, and the finally branch clears loading.
AddFinish(p) ==
    /\ call[p].op = "add" /\ call[p].pc = "created"
    /\ medicines' = PrependMed(call[p].newMed[1], medicines)
    /\ Finish(p, [call[p] EXCEPT !.ret = call[p].newMed], call)
    /\ loading' = FALSE
    /\ UNCHANGED <<isInitialized, error, db, ledger, started, stable,
                   orphans, clsQ, clsStore, clsUI>>

(***************************************************************************)
(* updateMedicine                                                          *)
(***************************************************************************)
\* { ...m, ...updatedData }
UpdateRecord_priorWins(m, updatedData) == m @@ updatedData

UpdateRecord(m, updatedData) == updatedData @@ m

\* state.medicines.map((m) => m.id === id ? { ...m, ...updatedData } : m)
MapUpdated(list, id, updatedData) ==
    [i \in 1..Len(list) |->
        IF list[i].id = id THEN UpdateRecord(list[i], updatedData)
        ELSE list[i]]

\* let updatedMed / let approved: the last matching record mapped, or null.
LastMatching(list, id) ==
    LET S == {i \in 1..Len(list) : list[i].id = id}
    IN  IF S = {} THEN <<>>
        ELSE <<list[CHOOSE i \in S : \A j \in S : j <= i]>>

\* The rows of the table: the dashboard dispatches an operation on a record
\* of the current list.
ListedIds == {medicines[i].id : i \in 1..Len(medicines)}

UpdateStart(p) ==
    /\ CanStart(p)
    /\ \E id \in ListedIds, payload \in UpdatePayloads :
         call' = [call EXCEPT ![p] =
                     [NewCall("update", "store",
                              [id |-> id, payload |-> payload])
                         EXCEPT !.log = <<"update">>]]
    /\ loading' = TRUE
    /\ started' = started + 1
    /\ last' = IdleCall
    /\ UNCHANGED <<medicines, isInitialized, error, db, ledger, stable,
                   orphans, clsQ, clsStore, clsUI>>

\* updateMedicineInFirestore resolves with the fields written.
UpdateOk(p) ==
    /\ call[p].op = "update" /\ call[p].pc = "store"
    /\ DbHas(db, call[p].arg.id)
    /\ LET id == call[p].arg.id
           updatedData == call[p].arg.payload
       IN  /\ db' = DbUpdate(db, id, call[p].arg.payload)
           /\ medicines' = MapUpdated(medicines, id, updatedData)
           /\ Finish(p, [call[p] EXCEPT !.ret = LastMatching(medicines', id)],
                     Disturbed(call))
    /\ loading' = FALSE
    /\ stable' = <<>>
    /\ UNCHANGED <<isInitialized, error, ledger, started,
                   orphans, clsQ, clsStore, clsUI>>

\* updateMedicineInFirestore rejects: catch, then finally.
StoreFail_keepsLoading(p) ==
    /\ Finish(p, [call[p] EXCEPT !.failed = TRUE, !.ret = <<>>], call)
    /\ UNCHANGED <<medicines, isInitialized, error, loading, db, ledger,
                   started, stable, orphans, clsQ, clsStore, clsUI>>

StoreFail(p) ==
    /\ Finish(p, [call[p] EXCEPT !.failed = TRUE, !.ret = <<>>], call)
    /\ loading' = FALSE
    /\ UNCHANGED <<medicines, isInitialized, error, db, ledger, started,
                   stable, orphans, clsQ, clsStore, clsUI>>

UpdateFail(p) ==
    /\ call[p].op = "update" /\ call[p].pc = "store"
    /\ StoreFail(p)

(***************************************************************************)
(* The dashboard: what StockManagementPage renders of a store snapshot.     *)
(***************************************************************************)
\* if (!isInitialized) return the loading screen; otherwise the inventory.
Screen(initialized) ==
    IF ~initialized THEN "Loading Inventory..." ELSE "inventory"

(***************************************************************************)
(* approveMedicine                                                         *)
(***************************************************************************)
\* { ...m, listingStatus: "Approved", history: [...(m.history || []), e] }
ApproveRecord_idempotent(m) ==
    IF m.listingStatus = "Approved" THEN m
    ELSE [m EXCEPT !.listingStatus = "Approved",
                   !.history = Append(@, ApprovedEntry)]

ApproveRecord(m) ==
    [m EXCEPT !.listingStatus = "Approved",
              !.history = Append(@, ApprovedEntry)]

\* state.medicines.map((m) => m.id === id ? approved : m)
MapApproved(list, id) ==
    [i \in 1..Len(list) |->
        IF list[i].id = id THEN ApproveRecord(list[i]) ELSE list[i]]

\* listingStatusConfig[med.listingStatus || "Pending"].label
ListingLabel(med) ==
    IF med.listingStatus = "undefined" THEN "Pending" ELSE med.listingStatus

\* The Approve item of a row is rendered while the row's label is Pending;
\* handleApproveClick dispatches approveMedicine(medicine.id).
ApproveStart_offersAlways(p) ==
    /\ CanStart(p)
    /\ Screen(isInitialized) = "inventory"
    /\ \E i \in 1..Len(medicines) :
         call' = [call EXCEPT ![p] =
                     [NewCall("approve", "store", [id |-> medicines[i].id])
                         EXCEPT !.log = <<"update">>]]
    /\ loading' = TRUE
    /\ started' = started + 1
    /\ last' = IdleCall
    /\ UNCHANGED <<medicines, isInitialized, error, db, ledger, stable,
                   orphans, clsQ, clsStore, clsUI>>

ApproveStart(p) ==
    /\ CanStart(p)
    /\ Screen(isInitialized) = "inventory"
    /\ \E i \in 1..Len(medicines) :
         /\ ListingLabel(medicines[i]) = "Pending"
         /\ call' = [call EXCEPT ![p] =
                        [NewCall("approve", "store", [id |-> medicines[i].id])
                            EXCEPT !.log = <<"update">>]]
    /\ loading' = TRUE
    /\ started' = started + 1
    /\ last' = IdleCall
    /\ UNCHANGED <<medicines, isInitialized, error, db, ledger, stable,
                   orphans, clsQ, clsStore, clsUI>>

\* updateMedicineInFirestore(id, { listingStatus: "Approved" }) resolves.
ApproveOk(p) ==
    /\ call[p].op = "approve" /\ call[p].pc = "store"
    /\ DbHas(db, call[p].arg.id)
    /\ LET id == call[p].arg.id IN
           /\ db' = DbUpdate(db, id, [listingStatus |-> "Approved"])
           /\ medicines' = MapApproved(medicines, id)
           /\ Finish(p, [call[p] EXCEPT !.ret = LastMatching(medicines', id)],
                     Disturbed(call))
    /\ loading' = FALSE
    /\ stable' = <<>>
    /\ UNCHANGED <<isInitialized, error, ledger, started,
                   orphans, clsQ, clsStore, clsUI>>

ApproveFail(p) ==
    /\ call[p].op = "approve" /\ call[p].pc = "store"
    /\ StoreFail(p)

(***************************************************************************)
(* The store after the module is loaded: create(...) has built the state   *)
(* and the auto-load fetchMedicines() has run up to its first await.       *)
(***************************************************************************)
Init ==
    /\ medicines = <<>>
    /\ isInitialized = FALSE
    /\ error = "undefined"
    /\ loading = TRUE
    /\ \E w \in InitWorlds : db = w.db /\ ledger = w.ledger
    /\ stable = <<>>
    /\ call = [p \in Procs |->
                 IF p = 1 THEN [NewCall("fetch", "list", [none |-> TRUE])
                                   EXCEPT !.log = <<"list">>]
                 ELSE IdleCall]
    /\ last = IdleCall
    /\ started = 1
    /\ orphans = {}
    /\ clsQ = 0 /\ clsStore = "none" /\ clsUI = "none"

Next ==
    \E p \in Procs :
        \/ FetchStart(p)
        \/ FetchList(p)
        \/ FetchListFail(p)
        \/ FetchRead(p)
        \/ AddStart(p)
        \/ AddWriteOk(p)
        \/ AddWriteFail(p)
        \/ AddConfirm(p)
        \/ AddCreate(p)
        \/ AddCreateFail(p)
        \/ AddFinish(p)
        \/ UpdateStart(p)
        \/ UpdateOk(p)
        \/ UpdateFail(p)
        \/ ApproveStart(p)
        \/ ApproveOk(p)
        \/ ApproveFail(p)

Spec == Init /\ [][Next]_vars

(***************************************************************************)
(* The classifiers on their own: every quantity of -QLow..QHigh is given   *)
(* to the store's and to the view's classifier.                            *)
(***************************************************************************)
Quantities == (0 - QLow)..QHigh

ClassifyInit ==
    /\ medicines = <<>>
    /\ isInitialized = FALSE
    /\ error = "undefined"
    /\ loading = FALSE
    /\ db = <<>>
    /\ ledger = NoLedger
    /\ stable = <<>>
    /\ call = [p \in Procs |-> IdleCall]
    /\ last = IdleCall
    /\ started = 0
    /\ orphans = {}
    /\ clsQ = 0 /\ clsStore = "none" /\ clsUI = "none"

Classify ==
    /\ \E q \in Quantities :
         /\ clsQ' = q
         /\ clsStore' = getStockStatus(Number(Num(q)))
         /\ clsUI' = getUIStockStatus(Number(Num(q)))
    /\ last' = IdleCall
    /\ UNCHANGED <<medicines, isInitialized, error, loading, db, ledger, call,
                   started, stable, orphans>>

ClassifySpec == ClassifyInit /\ [][Classify]_vars

(***************************************************************************)
(* Steps of an invocation, as seen on a transition.                        *)
(***************************************************************************)
Completes(p, o) ==
    call[p].op = o /\ call[p].pc # "idle" /\ call'[p].pc = "idle"

FetchPublishes(p) == Completes(p, "fetch") /\ ~last'.failed

FetchFails(p) == Completes(p, "fetch") /\ last'.failed

\* A step of fetch p that does not complete it.
FetchContinues(p) ==
    /\ call[p].op = "fetch" /\ call[p].pc # "idle" /\ call'[p].pc # "idle"
    /\ \/ call'[p].pc # call[p].pc
       \/ call'[p].merged # call[p].merged

Reported(chainData) == ~chainData.isNull /\ chainData.exists

IsPrefix(s, t) ==
    Len(s) <= Len(t) /\ \A i \in 1..Len(s) : s[i] = t[i]

\* The latest step completed an invocation of o, which returned normally.
Returned(o) == last.op = o /\ ~last.failed

(***************************************************************************)
(* C1: after every successful fetch, each record of the list has            *)
(* stockStatus = classify(post-merge quantity), the post-merge quantity     *)
(* being the ledger's stock when the ledger reported the batch as existing  *)
(* and the quantity of the database record otherwise.                       *)
(***************************************************************************)
PostMergeQuantity(med, chainData) ==
    IF Reported(chainData) THEN Num(chainData.stock) ELSE Num(med.quantity)

C1_StockStatusOfPostMergeQuantity ==
    [][\A p \in Procs : FetchPublishes(p) =>
          \A i \in 1..Len(medicines') :
             medicines'[i].stockStatus =
                 getStockStatus(PostMergeQuantity(last'.meds[i],
                                                  last'.reads[i]))]_vars

(***************************************************************************)
(* C2: after every successful fetch, a record is On-Chain iff the ledger    *)
(* read of its batch reported exists = true during that fetch, and Pending  *)
(* Confirmation otherwise; On-Chain, its stock, price and manufacturer are  *)
(* the ledger's; Pending Confirmation, they are the database's.             *)
(***************************************************************************)
C2_LedgerStatusAndFields ==
    [][\A p \in Procs : FetchPublishes(p) =>
          /\ Len(medicines') = Len(last'.meds)
          /\ \A i \in 1..Len(medicines') :
               LET m == medicines'[i]
                   d == last'.meds[i]
                   r == last'.reads[i]
               IN  /\ m.id = d.id
                   /\ m.ledgerStatus = IF Reported(r) THEN "On-Chain"
                                       ELSE "Pending Confirmation"
                   /\ Reported(r) =>
                        /\ m.stock = Num(r.stock)
                        /\ m.price = r.price
                        /\ m.manufacturer = r.manufacturer
                   /\ ~Reported(r) =>
                        /\ m.stock = d.stock
                        /\ m.price = d.price
                        /\ m.manufacturer = d.manufacturer]_vars

\* A fetch has published a record the ledger overwrote.
C2_Witness ==
    /\ Returned("fetch")
    /\ medicines = last.merged
    /\ \E i \in 1..Len(medicines) :
         /\ medicines[i].ledgerStatus = "On-Chain"
         /\ medicines[i].price # last.meds[i].price
         /\ medicines[i].manufacturer # last.meds[i].manufacturer

(***************************************************************************)
(* C3: a fetch that fails leaves the list as it was (no step of a fetch     *)
(* other than its final publication writes the list), sets loading false    *)
(* and the error message, and leaves the initialization flag alone.         *)
(***************************************************************************)
C3_FailedFetchWritesNoList ==
    [][\A p \in Procs :
          /\ FetchFails(p) =>
               /\ medicines' = medicines
               /\ isInitialized' = isInitialized
               /\ loading' = FALSE
               /\ error' = FetchErrorMessage
          /\ FetchContinues(p) => medicines' = medicines]_vars

\* A fetch has failed after an earlier one had filled the list.
C3_Witness ==
    /\ last.op = "fetch" /\ last.failed
    /\ Len(medicines) > 0
    /\ isInitialized
    /\ ~loading
    /\ error = FetchErrorMessage

(***************************************************************************)
(* C4: an add whose ledger write fails never issues the document store      *)
(* create, returns null, leaves the list unchanged and loading false.       *)
(***************************************************************************)
C4_LedgerWriteFailureAborts ==
    [][\A p \in Procs :
          (Completes(p, "add") /\ call[p].pc = "write") =>
              /\ last'.ret = <<>>
              /\ last'.log = <<"write">>
              /\ db' = db
              /\ medicines' = medicines
              /\ loading' = FALSE]_vars

\* An add has ended at its ledger write, with records in the list.
C4_Witness ==
    /\ last.op = "add" /\ last.failed
    /\ last.log = <<"write">>
    /\ last.ret = <<>>
    /\ Len(medicines) > 0
    /\ ~loading

(***************************************************************************)
(* C5: when add succeeds, the new record is the first element of the list,  *)
(* the records held before follow in their order, and the record returned   *)
(* carries the identifier the document store's create assigned.             *)
(***************************************************************************)
C5_AddPrepends ==
    [][\A p \in Procs :
          (Completes(p, "add") /\ call[p].pc = "created") =>
              /\ Len(last'.ret) = 1
              /\ Len(medicines') = Len(medicines) + 1
              /\ medicines'[1] = last'.ret[1]
              /\ \A i \in 1..Len(medicines) : medicines'[i + 1] = medicines[i]
              /\ last'.ret[1].id = call[p].newMed[1].id
              /\ \E i \in 1..Len(db) :
                   /\ db[i].id = last'.ret[1].id
                   /\ db[i].txHash = call[p].txHash]_vars

\* An add has returned its record in front of an older one.
C5_Witness ==
    /\ Returned("add")
    /\ Len(last.ret) = 1
    /\ Len(medicines) >= 2
    /\ medicines[1] = last.ret[1]
    /\ medicines[2].id # medicines[1].id

(***************************************************************************)
(* C6: a successful approve(id) sets listingStatus Approved on the record   *)
(* with that id and appends exactly one APPROVED entry after its existing   *)
(* history (so a second one makes two); no other record is changed.         *)
(***************************************************************************)
C6_ApproveAppendsOneEntry ==
    [][\A p \in Procs :
          (Completes(p, "approve") /\ ~last'.failed) =>
              /\ Len(medicines') = Len(medicines)
              /\ \A i \in 1..Len(medicines) :
                   IF medicines[i].id = call[p].arg.id
                   THEN medicines'[i] =
                          [medicines[i] EXCEPT
                              !.listingStatus = "Approved",
                              !.history = medicines[i].history
                                             \o <<ApprovedEntry>>]
                   ELSE medicines'[i] = medicines[i]]_vars

\* A record approved twice holds two APPROVED entries.
C6_Witness ==
    \E i \in 1..Len(medicines) :
        /\ medicines[i].listingStatus = "Approved"
        /\ medicines[i].history = <<ApprovedEntry, ApprovedEntry>>

(***************************************************************************)
(* C7: history is append-only: for every identifier, the history held in    *)
(* the list after a step has the history held before it as a prefix.        *)
(***************************************************************************)
C7_HistoryAppendOnly ==
    [][\A i \in 1..Len(medicines), j \in 1..Len(medicines') :
          medicines[i].id = medicines'[j].id =>
              IsPrefix(medicines[i].history, medicines'[j].history)]_vars

(***************************************************************************)
(* C8: in every reachable state every record of the list has stockStatus =  *)
(* classify(its quantity).                                                  *)
(***************************************************************************)
C8_StockStatusAlwaysClassified ==
    \A i \in 1..Len(medicines) :
        medicines[i].stockStatus = getStockStatus(Num(medicines[i].quantity))

(***************************************************************************)
(* C9: both classifiers return Out of Stock iff q <= 0, Low Stock iff       *)
(* 1 <= q <= 50 and In Stock iff q > 50, and agree on every quantity.       *)
(***************************************************************************)
C9_ClassifierThresholds ==
    clsStore # "none" =>
        /\ clsStore \in {"Out of Stock", "Low Stock", "In Stock"}
        /\ (clsStore = "Out of Stock") <=> (clsQ <= 0)
        /\ (clsStore = "Low Stock") <=> (1 <= clsQ /\ clsQ <= 50)
        /\ (clsStore = "In Stock") <=> (clsQ > 50)
        /\ (clsUI = "Out of Stock") <=> (clsQ <= 0)
        /\ (clsUI = "Low Stock") <=> (1 <= clsQ /\ clsQ <= 50)
        /\ (clsUI = "In Stock") <=> (clsQ > 50)
        /\ clsStore = clsUI

\* The boundary quantity 50 has been classified.
C9_Witness == clsQ = 50 /\ clsStore = "Low Stock" /\ clsUI = "Low Stock"

NoReadFailed(reads) == \A i \in 1..Len(reads) : ~reads[i].isNull

Starts(p) == call[p].pc = "idle" /\ call'[p].pc # "idle"

Ends(p) == call[p].pc # "idle" /\ call'[p].pc = "idle"

C11_LoadingSetAndCleared ==
    [][\A p \in Procs :
          /\ Starts(p) => loading'
          /\ Ends(p) => ~loading' /\ last'.op = call[p].op]_vars

\* An update has failed while a fetch is still in flight: loading is false.
C11_Witness ==
    /\ last.op = "update" /\ last.failed
    /\ ~loading
    /\ InFlight("fetch") # {}

(***************************************************************************)
(* C12: update and approve return null exactly when the document store's    *)
(* update call fails: when it succeeds they return the updated record (for  *)
(* approve, with listingStatus Approved), whatever the list holds when the  *)
(* call completes.                                                          *)
(***************************************************************************)
C12_NullExactlyOnStoreFailure ==
    last.op \in {"update", "approve"} =>
        /\ last.failed <=> last.ret = <<>>
        /\ ~last.failed =>
              /\ Len(last.ret) = 1
              /\ last.ret[1].id = last.arg.id
              /\ last.op = "approve" => last.ret[1].listingStatus = "Approved"

(***************************************************************************)
(* C13: a successful update(id, payload) sets, on the listed record with    *)
(* that id, every field of the document store's response to the response's *)
(* value and leaves its other fields, the other records, the length and the *)
(* order of the list unchanged; a failed update leaves the list unchanged.  *)
(***************************************************************************)
C13_UpdateShallowMerge ==
    [][\A p \in Procs : Completes(p, "update") =>
          IF last'.failed
          THEN medicines' = medicines
          ELSE /\ Len(medicines') = Len(medicines)
               /\ \A i \in 1..Len(medicines) :
                    IF medicines[i].id = call[p].arg.id
                    THEN /\ DOMAIN medicines'[i] = DOMAIN medicines[i]
                         /\ \A f \in DOMAIN medicines[i] :
                              medicines'[i][f] =
                                  IF f \in DOMAIN call[p].arg.payload
                                  THEN call[p].arg.payload[f]
                                  ELSE medicines[i][f]
                    ELSE medicines'[i] = medicines[i]]_vars

\* An update has changed the price of one of two listed records.
C13_Witness ==
    /\ Returned("update")
    /\ Len(last.ret) = 1
    /\ Len(medicines) >= 2
    /\ \E i \in 1..Len(medicines) :
         /\ medicines[i] = last.ret[1]
         /\ medicines[i].price = 99
         /\ medicines[i].quantity # 0
         /\ \E j \in 1..Len(medicines) : medicines[j].price # 99

(***************************************************************************)
(* C14: a ledger read that fails (null) or reports no record does not fail  *)
(* the fetch: a fetch fails only at its list call, and when it publishes,   *)
(* the list is its merged list, the store is initialized, the error message *)
(* is left as it was, and each record whose read did not report an existing *)
(* ledger record is Pending Confirmation with the stock, price and          *)
(* manufacturer the database listed.                                        *)
(***************************************************************************)
C14_FailedReadDoesNotFailFetch ==
    [][\A p \in Procs :
          /\ FetchFails(p) => call[p].pc = "list" /\ call[p].reads = <<>>
          /\ FetchPublishes(p) =>
               /\ medicines' = last'.merged
               /\ Len(medicines') = Len(last'.meds)
               /\ isInitialized'
               /\ error' = error
               /\ \A i \in 1..Len(last'.reads) :
                    ~Reported(last'.reads[i]) =>
                        /\ medicines'[i].ledgerStatus = "Pending Confirmation"
                        /\ medicines'[i].stock = last'.meds[i].stock
                        /\ medicines'[i].price = last'.meds[i].price
                        /\ medicines'[i].manufacturer =
                               last'.meds[i].manufacturer]_vars

\* A fetch has published a record whose ledger read failed although the
\* ledger holds the batch.
C14_Witness ==
    /\ Returned("fetch")
    /\ isInitialized
    /\ error = "undefined"
    /\ \E i \in 1..Len(last.reads) :
         /\ last.reads[i].isNull
         /\ ledger[last.meds[i].batchNo].exists
         /\ medicines[i].ledgerStatus = "Pending Confirmation"
         /\ medicines[i].price = last.meds[i].price

(***************************************************************************)
(* C15: fetches are not mutually excluded, and the list after a fetch has   *)
(* published is that fetch's own complete merged list (one record per       *)
(* document it listed, each merged with its own ledger read), whatever an   *)
(* overlapping fetch published before: the last publication wins, and the   *)
(* list is never a mixture of two fetches' results.                         *)
(***************************************************************************)
C15_LastPublishedFetchWins ==
    Returned("fetch") =>
        /\ medicines = last.merged
        /\ Len(medicines) = Len(last.meds)
        /\ \A i \in 1..Len(medicines) :
             medicines[i] = MergeMed(last.meds[i], last.reads[i])

\* Two fetches overlapped and both have completed: the one that published
\* second started before the other published, and its list, which differs
\* from the other's, is the list.
C15_Witness ==
    /\ Returned("fetch")
    /\ ~last.after
    /\ last.clean
    /\ stable # <<>>
    /\ \A p \in Procs : call[p].pc = "idle"
    /\ medicines = last.merged
    /\ Len(medicines) > 0
    /\ medicines # stable[1].list

(***************************************************************************)
(* C16: within one fetch the ledger reads are issued one at a time in the   *)
(* order of the database's list: while the fetch waits for a read, the      *)
(* reads of the records before it have completed and no other read of that  *)
(* fetch has been issued; the fetch publishes, and clears loading, only in  *)
(* the step in which the read of the last record completes, so a read that  *)
(* never completes leaves it unpublished.                                   *)
(***************************************************************************)
ReadsIssued(log) == Cardinality({i \in 1..Len(log) : log[i] = "read"})

SequentialReads(c) ==
    /\ Len(c.merged) = Len(c.reads)
    /\ \A i \in 1..Len(c.merged) : c.merged[i].id = c.meds[i].id
    /\ c.pc = "list" => ReadsIssued(c.log) = 0 /\ c.reads = <<>>
    /\ c.pc = "read" => /\ ReadsIssued(c.log) = Len(c.reads) + 1
                        /\ Len(c.reads) < Len(c.meds)

C16_LedgerReadsSequential ==
    [][\A p \in Procs :
          /\ (call'[p].op = "fetch" /\ call'[p].pc # "idle") =>
                 SequentialReads(call'[p])
          /\ FetchPublishes(p) =>
                 /\ Len(last'.reads) = Len(last'.meds)
                 /\ ReadsIssued(last'.log) = Len(last'.meds)
                 /\ call[p].pc = "read" =>
                        Len(call[p].reads) + 1 = Len(last'.reads)
          /\ (call[p].op = "fetch" /\ call[p].pc = "read"
                 /\ call'[p].pc # "idle"
                 /\ call'[p].reads = call[p].reads) =>
                 /\ call'[p].pc = "read"
                 /\ call'[p].log = call[p].log
          /\ (Completes(p, "fetch") /\ call[p].pc = "read") => ~last'.failed
          /\ FetchContinues(p) =>
                 loading' = loading /\ medicines' = medicines]_vars

\* A fetch of two records waits for its second read, the first completed.
C16_Witness ==
    \E p \in Procs :
        /\ call[p].op = "fetch" /\ call[p].pc = "read"
        /\ Len(call[p].meds) = 2
        /\ Len(call[p].reads) = 1
        /\ ReadsIssued(call[p].log) = 2

(***************************************************************************)
(* C17: scenario: the database lists a record of batch B1 and the ledger    *)
(* read for B1 returns {exists: true, stock: 5, price: 10, manufacturer:    *)
(* Acme}; after the fetch the record has stock 5, stockStatus Out of Stock   *)
(* and ledgerStatus On-Chain.                                               *)
(***************************************************************************)
\* The latest step published a fetch whose i-th record is the scenario's.
ScenarioB1(i) ==
    /\ Returned("fetch")
    /\ last.meds[i].batchNo = "B1"
    /\ last.reads[i] = LedgerB1

C17_ScenarioB1OutOfStock ==
    \A i \in 1..Len(last.meds) : ScenarioB1(i) =>
        /\ medicines[i].stock = Num(5)
        /\ medicines[i].stockStatus = "Out of Stock"
        /\ medicines[i].ledgerStatus = "On-Chain"

\* C17 as amended: the same, with stockStatus Low Stock.
C17_ScenarioB1LowStock ==
    \A i \in 1..Len(last.meds) : ScenarioB1(i) =>
        /\ medicines[i].stock = Num(5)
        /\ medicines[i].stockStatus = "Low Stock"
        /\ medicines[i].ledgerStatus = "On-Chain"

\* The scenario's fetch has published.
C17_Witness ==
    \E i \in 1..Len(last.meds) :
        /\ ScenarioB1(i)
        /\ medicines[i].batchNo = "B1"
        /\ medicines[i].stock = Num(5)
        /\ medicines[i].stockStatus = "Low Stock"

(***************************************************************************)
(* C18: add issues the ledger write, then the ledger read of the same       *)
(* batch, then the document store create, each after the one before has     *)
(* completed; the record given to create carries the transaction hash the   *)
(* ledger write returned, ledgerStatus On-Chain iff that read reported      *)
(* exists = true (Pending Confirmation otherwise) and onChain = (the        *)
(* ledgerStatus is On-Chain).                                               *)
(***************************************************************************)
AddCallOrder(c) ==
    /\ c.pc = "write" =>
          c.log = <<"write">> /\ c.txHash = "undefined" /\ c.reads = <<>>
    /\ c.pc = "confirm" =>
          /\ c.log = <<"write", "read">>
          /\ c.txHash = TxHashOf(c.arg.batchNo)
          /\ c.reads = <<>>
    /\ c.pc \in {"create", "created"} =>
          /\ c.log = <<"write", "read", "create">>
          /\ c.txHash = TxHashOf(c.arg.batchNo)
          /\ Len(c.reads) = 1
          /\ c.reads[1].isNull \/ c.reads[1] = ledger[c.arg.batchNo]
          /\ c.ledgerStatus = IF Reported(c.reads[1]) THEN "On-Chain"
                              ELSE "Pending Confirmation"
    /\ c.pc = "create" => c.newMed = <<>>
    /\ c.pc = "created" =>
          /\ Len(c.newMed) = 1
          /\ c.newMed[1].batchNo = c.arg.batchNo
          /\ c.newMed[1].txHash = c.txHash
          /\ c.newMed[1].ledgerStatus = c.ledgerStatus
          /\ c.newMed[1].onChain <=> (c.ledgerStatus = "On-Chain")

C18_AddCallOrderAndRecord ==
    \A p \in Procs : call[p].op = "add" => AddCallOrder(call[p])

\* A create has stored a Pending Confirmation record: the add's read of the
\* ledger failed although its write had been mined.
C18_Witness ==
    \E p \in Procs :
        /\ call[p].op = "add" /\ call[p].pc = "created"
        /\ call[p].reads[1].isNull
        /\ ledger[call[p].arg.batchNo].exists
        /\ call[p].newMed[1].txHash = "0xb2"
        /\ call[p].newMed[1].ledgerStatus = "Pending Confirmation"
        /\ ~call[p].newMed[1].onChain

(***************************************************************************)
(* C19: an add whose ledger write succeeded and whose document store create *)
(* fails returns null, leaves the list unchanged and loading false, and     *)
(* does not undo the ledger write; the ledger then holds a record of the    *)
(* batch with no database record, and no later store operation creates that *)
(* database record or adds the batch to the list.                           *)
(***************************************************************************)
\* The step in which add p ends at its create call.
CreateFails(p) == Completes(p, "add") /\ call[p].pc = "create"

CreateFailureLeavesOrphan ==
    \A p \in Procs : CreateFails(p) =>
        /\ last'.failed /\ last'.ret = <<>>
        /\ medicines' = medicines
        /\ ~loading'
        /\ db' = db
        /\ ledger' = ledger
        /\ ledger'[call[p].arg.batchNo] = LedgerRecord(call[p].arg)

C19_OrphanIsNeverRepaired ==
    [][/\ CreateFailureLeavesOrphan
       /\ \A b \in orphans' :
            /\ ledger'[b].exists
            /\ ~HasBatch(db', b)
            /\ ~HasBatch(medicines', b)]_vars

\* C19 as amended: the batch gets its database record only from the create
\* of another add of that batch, which has written the ledger itself, and
\* enters the list only when that add returns or when a fetch publishes the
\* record it listed.
C19_OrphanRepairedOnlyByAnotherAdd ==
    [][/\ CreateFailureLeavesOrphan
       /\ \A b \in orphans' : ledger'[b].exists
       /\ \A b \in orphans :
            /\ (HasBatch(db', b) /\ ~HasBatch(db, b)) =>
                  \E p \in Procs :
                      /\ call[p].op = "add" /\ call[p].pc = "create"
                      /\ call[p].arg.batchNo = b
                      /\ call[p].log = <<"write", "read", "create">>
                      /\ call'[p].pc = "created"
            /\ (HasBatch(medicines', b) /\ ~HasBatch(medicines, b)) =>
                  /\ HasBatch(db, b)
                  /\ \E p \in Procs :
                        \/ /\ Completes(p, "add") /\ call[p].pc = "created"
                           /\ call[p].arg.batchNo = b
                        \/ FetchPublishes(p) /\ HasBatch(last'.meds, b)]_vars

\* An add has just failed at its create: its batch is on the ledger, not in
\* the database and not in the list, which holds an older record.
C19_Witness ==
    /\ last.op = "add" /\ last.failed
    /\ last.log = <<"write", "read", "create">>
    /\ last.ret = <<>>
    /\ ~loading
    /\ Len(medicines) > 0
    /\ last.arg.batchNo \in orphans
    /\ ledger[last.arg.batchNo].exists
    /\ ~HasBatch(db, last.arg.batchNo)
    /\ ~HasBatch(medicines, last.arg.batchNo)

(***************************************************************************)
(* C20: in every reachable state no two records of the list share an        *)
(* identifier.                                                              *)
(***************************************************************************)
C20_UniqueIds ==
    \A i, j \in 1..Len(medicines) :
        medicines[i].id = medicines[j].id => i = j

(***************************************************************************)
(* C21: loading is true in every state in which some invocation of fetch,   *)
(* add, update or approve has started and not yet completed.                *)
(***************************************************************************)
C21_LoadingWhileInFlight ==
    (\E p \in Procs : call[p].pc # "idle") => loading

(***************************************************************************)
(* C22: the error message is set only by a fetch that fails and is never    *)
(* cleared: once set it stays set, also when a later fetch succeeds, and    *)
(* add, update and approve leave it as it is, whether they succeed or fail. *)
(***************************************************************************)
C22_ErrorSetOnlyByFailedFetch ==
    [][/\ error' # error =>
            /\ error' = FetchErrorMessage
            /\ \E p \in Procs : FetchFails(p)
       /\ error # "undefined" => error' = error
       /\ \A p \in Procs :
            /\ FetchFails(p) => error' = FetchErrorMessage
            /\ (Ends(p) /\ call[p].op # "fetch") => error' = error]_vars

\* A fetch has succeeded after an earlier one failed: the error is still set.
C22_Witness ==
    /\ Returned("fetch")
    /\ isInitialized
    /\ Len(medicines) > 0
    /\ error = FetchErrorMessage

(***************************************************************************)
(* C23: the initialization flag is false initially, becomes true only in    *)
(* the step in which a fetch publishes, is left alone by add, update and    *)
(* approve and by a failing fetch, and never returns to false; the          *)
(* dashboard shows the inventory iff the flag is true, so it shows its      *)
(* loading screen as long as no fetch has succeeded, also with loading      *)
(* false and an error set.                                                  *)
(***************************************************************************)
C23_InitializedMonotonic ==
    /\ isInitialized = FALSE
    /\ [][/\ isInitialized => isInitialized'
          /\ (~isInitialized /\ isInitialized') =>
                \E p \in Procs : FetchPublishes(p)
          /\ \A p \in Procs :
                /\ FetchPublishes(p) => isInitialized'
                /\ (Ends(p) /\ ~FetchPublishes(p)) =>
                      isInitialized' = isInitialized
          /\ (Screen(isInitialized') = "inventory") <=> isInitialized'
          /\ (~isInitialized /\ ~\E p \in Procs : FetchPublishes(p)) =>
                Screen(isInitialized') = "Loading Inventory..."]_vars

\* The only fetch so far has failed and nothing is in flight: loading is
\* false, the error is set, and the dashboard shows its loading screen.
C23_Witness ==
    /\ last.op = "fetch" /\ last.failed
    /\ started = 1
    /\ \A p \in Procs : call[p].pc = "idle"
    /\ ~loading
    /\ error = FetchErrorMessage
    /\ ~isInitialized
    /\ Screen(isInitialized) = "Loading Inventory..."

(***************************************************************************)
(* C24: the dashboard dispatches approve only for a row of the current list *)
(* whose listingStatus is Pending or absent, never for one that is          *)
(* Approved; it reports a null result of approve as a failed approval and a *)
(* non-null result as a success.                                            *)
(***************************************************************************)
C24_ApproveOfferedWhilePending ==
    [][\A p \in Procs :
          /\ (Starts(p) /\ call'[p].op = "approve") =>
                \E i \in 1..Len(medicines) :
                    /\ medicines[i].id = call'[p].arg.id
                    /\ medicines[i].listingStatus \in {"Pending", "undefined"}
                    /\ medicines[i].listingStatus # "Approved"
          /\ Completes(p, "approve") =>
                /\ last'.ret = <<>> <=> last'.toast = "Approval Failed"
                /\ last'.ret # <<>> <=> last'.toast = "Medicine Approved"]_vars

\* An approve has been reported as a success, and no row of that record
\* offers Approve any more.
C24_Witness ==
    /\ Returned("approve")
    /\ last.ret # <<>>
    /\ last.toast = "Medicine Approved"
    /\ \A i \in 1..Len(medicines) :
         medicines[i].id = last.arg.id =>
             ListingLabel(medicines[i]) = "Approved"

====
